---- MODULE Spec2Model ----
(***************************************************************************)
(* Model of the repository synchronisation code of whiterose               *)
(* (git/git.go): Setup loads the repository list, fills the credentials    *)
(* of every entry from the environment and hands the list to               *)
(* fetchRepositories, which calls clone for each entry in turn.            *)
(*                                                                         *)
(* Representation of strings.                                              *)
(*   - A URL is the sequence of its characters, so that strings.HasPrefix  *)
(*     is computed on characters.                                          *)
(*   - Every other string (environment values, paths, branch names) is     *)
(*     the sequence of its "/"-separated pieces, as strings.Split(s, "/")  *)
(*     gives them: "" is <<"">>, "bob" is <<"bob">>, "/keys" is            *)
(*     <<"", "keys">>, "/keys/" is <<"", "keys", "">>.  With it            *)
(*     a + "/" + b is a \o b.                                              *)
(***************************************************************************)
EXTENDS Naturals, Integers, Sequences, FiniteSets, TLC

VARIABLES
    pc,         \* position of the process
    config,     \* the configuration file on disk
    env,        \* the process environment (os.Getenv)
    repos,      \* Setup's local slice of GitCloneOptions
    idx,        \* position of fetchRepositories' range loop (1-based)
    fs,         \* target directories on disk
    auth,       \* cloneOpts.Auth of the clone call in progress
    err,        \* the error fetchRepositories returned to Setup
    exitStatus, \* statuses the process exited with: empty while it runs
    outcome,    \* history: what clone returned for each entry
    built,      \* history: credentials constructed for each entry
    keyRead,    \* history: key files os.ReadFile was called on, per entry
    tried,      \* history: cloneOpts.Auth of each git.PlainClone call, per entry
    fsAtCall,   \* history: fs when the clone call in progress was entered
    cpc,        \* configuration loading: position of the process
    disk,       \* configuration loading: the configuration files on disk
    cfg,        \* configuration loading: the path handed to FetchRepositories
    written,    \* configuration loading: history, the list a file was written from
    got,        \* configuration loading: what FetchRepositories returned
    dpc,        \* LoadDotEnv: position of the process
    impl,       \* LoadDotEnv: the source file the function is built from
    dotenv,     \* LoadDotEnv: the .env file of the home directory
    ret,        \* LoadDotEnv: history, the error returned to the caller
    upc,        \* setup use case: position of Execute
    request,    \* setup use case: the SetupRepositoriesRequest
    store,      \* setup use case: the repository store, name to local path
    response,   \* setup use case: the SetupRepositoriesResponse being built
    uidx,       \* setup use case: position of Execute's range loop (1-based)
    execErr,    \* setup use case: the error Execute returned
    runs,       \* setup use case: number of Execute calls made
    startStore, \* setup use case: history, the store when Execute was entered
    cloneCalls, \* setup use case: history, names gitPort.Clone was invoked for
    repository, \* repository entity: the Repository, or none before NewRepository
    calls,      \* repository entity: history, the calls made and what they returned
    image,      \* docker image: the DockerImage, or none before NewDockerImage
    imageCall,  \* docker image: history, the last call, its result and the image before it
    imageCalls, \* docker image: number of calls made on the image
    callers,    \* concurrent Execute: each caller's request, position and result
    sharedStore, \* concurrent Execute: the repository store the callers share
    cloneCount  \* concurrent Execute: history, calls of gitPort.Clone per repository name

\* The variables of the components of the program.  Each component is
\* studied by a specification of its own, in which the other components
\* do not run.
gitVars == <<pc, config, repos, idx, fs, auth, err, outcome, built, keyRead, tried,
             fsAtCall>>
configVars == <<cpc, disk, cfg, written, got>>
dotEnvVars == <<dpc, impl, dotenv, ret>>
useCaseVars == <<upc, request, store, response, uidx, execErr, runs, startStore,
                 cloneCalls>>
entityVars == <<repository, calls>>
imageVars == <<image, imageCall, imageCalls>>
sharedVars == <<callers, sharedStore, cloneCount>>
others == <<configVars, dotEnvVars, useCaseVars, entityVars, imageVars, sharedVars>>
outsideConfig == <<gitVars, dotEnvVars, useCaseVars, entityVars, imageVars, sharedVars>>
outsideDotEnv == <<gitVars, configVars, useCaseVars, entityVars, imageVars, sharedVars>>
outsideUseCase == <<gitVars, configVars, dotEnvVars, entityVars, imageVars, sharedVars, env, exitStatus>>
outsideEntity == <<gitVars, configVars, dotEnvVars, useCaseVars, imageVars, sharedVars, env, exitStatus>>
outsideImage == <<gitVars, configVars, dotEnvVars, useCaseVars, entityVars, sharedVars, env, exitStatus>>
outsideShared == <<gitVars, configVars, dotEnvVars, useCaseVars, entityVars, imageVars, env, exitStatus>>

vars == <<gitVars, env, exitStatus, others>>

----------------------------------------------------------------------------
(* Bounds and the inputs of the model *)

\* Longest repository list a configuration file holds.
MaxRepos == 2

Empty == <<"">>

\* The configuration loading component while it does not run.
ConfigIdle ==
    /\ cpc = "off"
    /\ disk = <<>>
    /\ cfg = Empty
    /\ written = <<>>
    /\ got = <<>>

\* A .env file that does not exist.
NoDotEnv == [state |-> "missing", vars |-> <<>>]

\* LoadDotEnv while it does not run.
DotEnvIdle ==
    /\ dpc = "off"
    /\ impl = ""
    /\ dotenv = NoDotEnv
    /\ ret = <<>>

\* The response of an Execute call that has not built one.
NoResponse ==
    [SetupResults |-> <<>>, TotalCount |-> 0, SuccessCount |-> 0, FailureCount |-> 0]

\* The setup use case while it does not run.
UseCaseIdle ==
    /\ upc = "off"
    /\ request = [Repositories |-> <<>>, ForceClone |-> FALSE, WorkingDir |-> Empty]
    /\ store = <<>>
    /\ response = NoResponse
    /\ uidx = 0
    /\ execErr = "nil"
    /\ runs = 0
    /\ startStore = <<>>
    /\ cloneCalls = {}

\* No Repository: NewRepository has not returned one.
NilRepository == [exists |-> FALSE]

\* The repository entity while it is not exercised.
EntityIdle ==
    /\ repository = NilRepository
    /\ calls = <<>>

\* No DockerImage: NewDockerImage has not returned one.
NilImage == [exists |-> FALSE]

\* The docker image entity while it is not exercised.
ImageIdle ==
    /\ image = NilImage
    /\ imageCall = <<>>
    /\ imageCalls = 0

\* The concurrent callers of Execute while there are none.
SharedIdle ==
    /\ callers = <<>>
    /\ sharedStore = <<>>
    /\ cloneCount = <<>>

HTTPSPrefix == <<"h","t","t","p","s",":","/","/">>
GitPrefix == <<"g","i","t","@">>
SSHPrefix == <<"s","s","h",":","/","/">>

\* "https://h/a", "git@h:b", "ssh://h/c", "http://h/d"
UrlHttps == <<"h","t","t","p","s",":","/","/","h","/","a">>
UrlGit == <<"g","i","t","@","h",":","b">>
UrlSsh == <<"s","s","h",":","/","/","h","/","c">>
UrlHttp == <<"h","t","t","p",":","/","/","h","/","d">>
Urls == {UrlHttps, UrlGit, UrlSsh, UrlHttp}

\* "/tmp/a", "/tmp/b"
DirA == <<"", "tmp", "a">>
DirB == <<"", "tmp", "b">>
Dirs == {DirA, DirB}

\* Directories of the key store on disk: "/keys", "/home/u/.ssh".
KeyDirs == { <<"", "keys">>, <<"", "home", "u", ".ssh">> }

\* The environments the process is started in.
Envs ==
    { [GIT_USER |-> Empty, GIT_TOKEN |-> Empty, SSH_KEY_PATH |-> Empty,
       SSH_KEY_NAME |-> Empty, USER |-> <<"u">>, HOME |-> <<"", "home", "u">>],
      [GIT_USER |-> <<"bob">>, GIT_TOKEN |-> <<"tok">>, SSH_KEY_PATH |-> <<"", "keys">>,
       SSH_KEY_NAME |-> <<"id_ed">>, USER |-> <<"u">>, HOME |-> <<"", "home", "u">>],
      [GIT_USER |-> <<"bob">>, GIT_TOKEN |-> Empty, SSH_KEY_PATH |-> <<"", "keys", "">>,
       SSH_KEY_NAME |-> Empty, USER |-> Empty, HOME |-> <<"", "home", "u">>],
      [GIT_USER |-> Empty, GIT_TOKEN |-> <<"tok">>, SSH_KEY_PATH |-> <<"", "keys", "k">>,
       SSH_KEY_NAME |-> <<"id_ed">>, USER |-> <<"u">>, HOME |-> <<"", "home", "u">>],
      [GIT_USER |-> <<"bob">>, GIT_TOKEN |-> <<"tok">>, SSH_KEY_PATH |-> Empty,
       SSH_KEY_NAME |-> <<"id_ed">>, USER |-> <<"u">>, HOME |-> Empty] }

\* Branch names.
Main == <<"main">>
Development == <<"development">>
DevU == <<"development", "u">>

\* What a remote answers to a clone: a transport failure, or its branches
\* and the branch its HEAD names.
Remotes ==
    { [ok |-> FALSE, branches |-> {}, head |-> Main],
      [ok |-> TRUE, branches |-> {Main}, head |-> Main],
      [ok |-> TRUE, branches |-> {Main, Development}, head |-> Main],
      [ok |-> TRUE, branches |-> {Main, Development}, head |-> Development],
      [ok |-> TRUE, branches |-> {Main, DevU}, head |-> DevU] }

RepoInfos == [URL : Urls, Directory : Dirs]

RECURSIVE SeqsUpTo(_, _)
SeqsUpTo(S, n) ==
    IF n = 0 THEN { <<>> }
    ELSE LET shorter == SeqsUpTo(S, n - 1)
         IN shorter \cup { Append(s, x) : s \in shorter, x \in S }

\* The repository lists a configuration file can hold.
ConfigFiles == SeqsUpTo(RepoInfos, MaxRepos)

\* A configuration file that cannot be opened or decoded.
Unreadable == [ok |-> FALSE, repositories |-> <<>>]

NoExit == {}
NilError == [kind |-> "nil", url |-> <<>>]
NoAuth == [kind |-> "none", username |-> Empty, password |-> Empty, keyPath |-> Empty]
Absent == [state |-> "absent", local |-> {}, tracking |-> {}, head |-> Empty]
PreExisting == [state |-> "pre", local |-> {}, tracking |-> {}, head |-> Empty]

----------------------------------------------------------------------------
(* Pure functions *)

GetEnvOrDefault(key, defaultValue) ==
    IF env[key] # Empty THEN env[key] ELSE defaultValue

HasPrefix(s, prefix) ==
    /\ Len(s) >= Len(prefix)
    /\ SubSeq(s, 1, Len(prefix)) = prefix

\* filepath.Clean on the pieces of a path: empty and "." pieces are dropped,
\* ".." removes the piece before it; a rooted path keeps its leading "".
RECURSIVE CleanPieces(_, _, _)
CleanPieces(pieces, acc, rooted) ==
    IF pieces = <<>> THEN acc
    ELSE LET p == Head(pieces)
             rest == Tail(pieces)
         IN IF p = "" \/ p = "." THEN CleanPieces(rest, acc, rooted)
            ELSE IF p = ".."
                 THEN IF acc # <<>> /\ acc[Len(acc)] # ".."
                      THEN CleanPieces(rest, SubSeq(acc, 1, Len(acc) - 1), rooted)
                      ELSE IF rooted THEN CleanPieces(rest, acc, rooted)
                           ELSE CleanPieces(rest, Append(acc, ".."), rooted)
                 ELSE CleanPieces(rest, Append(acc, p), rooted)

Clean(path) ==
    LET rooted == Len(path) > 1 /\ path[1] = ""
        body == CleanPieces(path, <<>>, rooted)
    IN IF rooted THEN <<"">> \o body
       ELSE IF body = <<>> THEN <<".">> ELSE body

RECURSIVE JoinPieces(_)
JoinPieces(elems) ==
    IF elems = <<>> THEN <<>>
    ELSE IF Head(elems) = Empty THEN JoinPieces(Tail(elems))
         ELSE Head(elems) \o JoinPieces(Tail(elems))

\* filepath.Join: empty elements are ignored, the rest joined by "/" and cleaned.
Join(elems) ==
    LET joined == JoinPieces(elems)
    IN IF joined = <<>> THEN Empty ELSE Clean(joined)

\* The file a path names on disk (the kernel ignores repeated and trailing "/").
Lookup(path) == Clean(path)

\* os.Stat(path) succeeded and FileInfo.IsDir() is true.
IsDir(path) == Lookup(path) \in KeyDirs

\* Mutant of LoadRepositoriesFromFile: every entry is put in front of the
\* ones before it.
LoadRepositoriesFromFile_Reversed(file) ==
    [i \in 1..Len(file) |->
        [URL |-> file[Len(file) + 1 - i].URL,
         Directory |-> file[Len(file) + 1 - i].Directory,
         Username |-> Empty, Password |-> Empty,
         SSHKeyPath |-> Empty, SSHKeyName |-> Empty]]

\* LoadRepositoriesFromFile: URL and Directory of every entry, in file order;
\* the credential fields are left at their zero value.
LoadRepositoriesFromFile(file) ==
    [i \in 1..Len(file) |->
        [URL |-> file[i].URL, Directory |-> file[i].Directory,
         Username |-> Empty, Password |-> Empty,
         SSHKeyPath |-> Empty, SSHKeyName |-> Empty]]

\* Setup's loop over repos: the four credential fields from the environment.
SetupOptions(r) ==
    [r EXCEPT !.Username = GetEnvOrDefault("GIT_USER", Empty),
              !.Password = GetEnvOrDefault("GIT_TOKEN", Empty),
              !.SSHKeyPath = GetEnvOrDefault("SSH_KEY_PATH", Empty),
              !.SSHKeyName = GetEnvOrDefault("SSH_KEY_NAME", <<"id_rsa">>)]

\* Mutant of BasicAuth: the password field is filled from the user name.
BasicAuth_UserTwice(opts) ==
    [kind |-> "basic", username |-> opts.Username, password |-> opts.Username,
     keyPath |-> Empty]

\* &http.BasicAuth{Username: opts.Username, Password: opts.Password}
BasicAuth(opts) ==
    [kind |-> "basic", username |-> opts.Username, password |-> opts.Password,
     keyPath |-> Empty]

\* Mutant of SSHKeyFile: a directory is always completed with "id_rsa".
SSHKeyFile_FixedName(keyPath) ==
    IF keyPath = Empty
    THEN IF env.HOME = Empty
         THEN [ok |-> FALSE, path |-> Empty]
         ELSE [ok |-> TRUE,
               path |-> Join(<<env.HOME, <<".ssh">>,
                               GetEnvOrDefault("SSH_KEY_NAME", <<"id_rsa">>)>>)]
    ELSE IF IsDir(keyPath)
         THEN [ok |-> TRUE, path |-> Join(<<keyPath, <<"id_rsa">>>>)]
         ELSE [ok |-> TRUE, path |-> keyPath]

\* The key file createSSHAuth reads: ok is FALSE when os.UserHomeDir fails
\* ($HOME is empty).
SSHKeyFile(keyPath) ==
    IF keyPath = Empty
    THEN IF env.HOME = Empty
         THEN [ok |-> FALSE, path |-> Empty]
         ELSE [ok |-> TRUE,
               path |-> Join(<<env.HOME, <<".ssh">>,
                               GetEnvOrDefault("SSH_KEY_NAME", <<"id_rsa">>)>>)]
    ELSE IF IsDir(keyPath)
         THEN [ok |-> TRUE,
               path |-> Join(<<keyPath, GetEnvOrDefault("SSH_KEY_NAME", <<"id_rsa">>)>>)]
         ELSE [ok |-> TRUE, path |-> keyPath]

\* Mutant of createSSHAuth: the error of os.ReadFile is not looked at.
createSSHAuth_ReadErrorIgnored(keyPath, readable, parses) ==
    LET file == SSHKeyFile(keyPath)
    IN IF ~file.ok
       THEN [err |-> "HomeDir", auth |-> NoAuth, read |-> {}]
       ELSE IF ~parses
            THEN [err |-> "KeyParse", auth |-> NoAuth, read |-> {file.path}]
            ELSE [err |-> "nil",
                  auth |-> [kind |-> "ssh", username |-> <<"git">>,
                            password |-> Empty, keyPath |-> file.path],
                  read |-> {file.path}]

\* createSSHAuth(keyPath); readable and parses are what os.ReadFile and
\* ssh.NewPublicKeys answer for the key file.
createSSHAuth(keyPath, readable, parses) ==
    LET file == SSHKeyFile(keyPath)
    IN IF ~file.ok
       THEN [err |-> "HomeDir", auth |-> NoAuth, read |-> {}]
       ELSE IF ~readable
            THEN [err |-> "KeyRead", auth |-> NoAuth, read |-> {file.path}]
            ELSE IF ~parses
                 THEN [err |-> "KeyParse", auth |-> NoAuth, read |-> {file.path}]
                 ELSE [err |-> "nil",
                       auth |-> [kind |-> "ssh", username |-> <<"git">>,
                                 password |-> Empty, keyPath |-> file.path],
                       read |-> {file.path}]

\* Mutant of NewBranch: the user name is left out of the branch name.
NewBranch_NoUser == <<"development">>

\* fmt.Sprintf("development/%s", os.Getenv("USER"))
NewBranch == <<"development">> \o env.USER

\* The commit a remote branch points at.
Tip(branch) == [tipOf |-> branch]

LocalNames(tree) == { ref.name : ref \in tree.local }

\* The commit HEAD of a working tree resolves to.
HeadCommit(tree) == (CHOOSE ref \in tree.local : ref.name = tree.head).commit

\* Mutant of PlainClone: the error of the clone is dropped.
PlainClone_ErrorDropped(tree, remote) ==
    IF tree.state = "cloned" \/ ~remote.ok
    THEN [ok |-> TRUE, tree |-> tree]
    ELSE [ok |-> TRUE,
          tree |-> [state |-> "cloned",
                    local |-> {[name |-> remote.head, commit |-> Tip(remote.head)]},
                    tracking |-> remote.branches,
                    head |-> remote.head]]

\* git.PlainClone(dir, false, cloneOpts) against a remote: the directory's
\* new content and whether the call returned an error.  A directory that
\* already holds a repository is refused; a failed clone leaves nothing
\* behind; a clone fetches every branch as a remote-tracking reference and
\* creates one local branch, the remote's HEAD.
PlainClone(tree, remote) ==
    IF tree.state = "cloned" \/ ~remote.ok
    THEN [ok |-> FALSE, tree |-> tree]
    ELSE [ok |-> TRUE,
          tree |-> [state |-> "cloned",
                    local |-> {[name |-> remote.head, commit |-> Tip(remote.head)]},
                    tracking |-> remote.branches,
                    head |-> remote.head]]

\* worktree.Checkout(&git.CheckoutOptions{Branch: "refs/heads/development"}):
\* resolves the local reference; io is FALSE when writing the tree fails.
CheckoutDevelopment(tree, io) ==
    IF Development \in LocalNames(tree) /\ io
    THEN [ok |-> TRUE, tree |-> [tree EXCEPT !.head = Development]]
    ELSE [ok |-> FALSE, tree |-> tree]

\* Mutant of CheckoutCreate: a failed branch creation removes the clone.
CheckoutCreate_Rollback(tree, branch, io) ==
    IF branch \notin LocalNames(tree) /\ io
    THEN [ok |-> TRUE,
          tree |-> [tree EXCEPT
                      !.local = @ \cup {[name |-> branch, commit |-> HeadCommit(tree)]},
                      !.head = branch]]
    ELSE [ok |-> FALSE, tree |-> Absent]

\* worktree.Checkout(&git.CheckoutOptions{Branch: "refs/heads/"+newBranch,
\* Create: true}): a new local branch at HEAD's commit, refused when a
\* branch of that name exists.
CheckoutCreate(tree, branch, io) ==
    IF branch \notin LocalNames(tree) /\ io
    THEN [ok |-> TRUE,
          tree |-> [tree EXCEPT
                      !.local = @ \cup {[name |-> branch, commit |-> HeadCommit(tree)]},
                      !.head = branch]]
    ELSE [ok |-> FALSE, tree |-> tree]

----------------------------------------------------------------------------
(* The process *)

Init ==
    /\ pc = "load"
    /\ config \in {Unreadable} \cup [ok : {TRUE}, repositories : ConfigFiles]
    /\ env \in Envs
    /\ repos = <<>>
    /\ idx = 0
    /\ fs \in [Dirs -> {Absent, PreExisting}]
    /\ auth = NoAuth
    /\ err = NilError
    /\ exitStatus = NoExit
    /\ outcome = <<>>
    /\ built = <<>>
    /\ keyRead = <<>>
    /\ tried = <<>>
    /\ fsAtCall = fs
    /\ ConfigIdle
    /\ DotEnvIdle
    /\ UseCaseIdle
    /\ EntityIdle
    /\ ImageIdle
    /\ SharedIdle

\* Setup, lines 44-49: the list is loaded, or the process exits with 1.
SetupLoad ==
    /\ pc = "load"
    /\ IF ~config.ok
       THEN /\ pc' = "exited"
            /\ exitStatus' = {1}
            /\ UNCHANGED <<repos, outcome, built, keyRead, tried>>
       ELSE LET file == config.repositories
            IN /\ repos' = LoadRepositoriesFromFile(file)
               /\ outcome' = [i \in 1..Len(file) |-> "unprocessed"]
               /\ built' = [i \in 1..Len(file) |-> {}]
               /\ keyRead' = [i \in 1..Len(file) |-> {}]
               /\ tried' = [i \in 1..Len(file) |-> {}]
               /\ pc' = "env"
               /\ UNCHANGED exitStatus
    /\ UNCHANGED <<others, config, env, idx, fs, auth, err, fsAtCall>>

\* Setup, lines 51-56.
SetupEnv ==
    /\ pc = "env"
    /\ repos' = [i \in 1..Len(repos) |-> SetupOptions(repos[i])]
    /\ idx' = 1
    /\ pc' = "fetch"
    /\ UNCHANGED <<others, config, env, fs, auth, err, exitStatus, outcome, built, keyRead, tried,
                   fsAtCall>>

\* fetchRepositories, the head of the range loop: the next entry is handed
\* to clone, or the loop is over and nil is returned.
FetchLoop ==
    /\ pc = "fetch"
    /\ IF idx > Len(repos)
       THEN /\ pc' = "setupret"
            /\ err' = NilError
            /\ UNCHANGED <<auth, fsAtCall>>
       ELSE /\ pc' = "stat"
            /\ auth' = NoAuth
            /\ fsAtCall' = fs
            /\ UNCHANGED err
    /\ UNCHANGED <<others, config, env, repos, idx, fs, exitStatus, outcome, built, keyRead, tried>>

\* Mutant of CloneReturn: an error of clone is recorded and the loop goes on.
CloneReturn_Continue(e) ==
    /\ outcome' = [outcome EXCEPT ![idx] = e]
    /\ idx' = idx + 1
    /\ pc' = "fetch"
    /\ UNCHANGED err

\* Mutant of CloneReturn: an error of clone ends the process on the spot.
CloneReturn_Exit(e) ==
    /\ outcome' = [outcome EXCEPT ![idx] = e]
    /\ IF e = "ok"
       THEN /\ idx' = idx + 1
            /\ pc' = "fetch"
            /\ UNCHANGED err
       ELSE /\ pc' = "exited"
            /\ UNCHANGED <<err, idx>>

\* clone returns e to fetchRepositories (lines 68-70): nil moves the loop to
\* the next entry, an error is wrapped with the URL and returned to Setup.
CloneReturn(e) ==
    /\ outcome' = [outcome EXCEPT ![idx] = e]
    /\ IF e = "ok"
       THEN /\ idx' = idx + 1
            /\ pc' = "fetch"
            /\ UNCHANGED err
       ELSE /\ pc' = "setupret"
            /\ err' = [kind |-> e, url |-> repos[idx].URL]
            /\ UNCHANGED idx

\* Mutant of DirectoryExists: only a directory that holds a repository is
\* refused.
DirectoryExists_OnlyRepository(opts) ==
    fs[Lookup(opts.Directory)].state = "cloned"

\* clone, line 95: os.Stat(opts.Directory) returned no error.
DirectoryExists(opts) ==
    fs[Lookup(opts.Directory)].state # "absent"

\* clone, lines 95-97: os.Stat on the target directory.
CloneStat ==
    /\ pc = "stat"
    /\ IF DirectoryExists(repos[idx])
       THEN CloneReturn("DirectoryExists")
       ELSE /\ pc' = "auth"
            /\ UNCHANGED <<idx, err, outcome>>
    /\ UNCHANGED <<others, config, env, repos, fs, auth, exitStatus, built, keyRead, tried, fsAtCall>>

\* clone, lines 104-115: cloneOpts.Auth by the prefix of the URL.
CloneAuth ==
    /\ pc = "auth"
    /\ LET opts == repos[idx]
       IN \/ /\ HasPrefix(opts.URL, HTTPSPrefix)
             /\ auth' = BasicAuth(opts)
             /\ built' = [built EXCEPT ![idx] = @ \cup {"basic"}]
             /\ pc' = "plainclone"
             /\ UNCHANGED <<idx, err, outcome, keyRead>>
          \/ /\ ~HasPrefix(opts.URL, HTTPSPrefix)
             /\ HasPrefix(opts.URL, GitPrefix) \/ HasPrefix(opts.URL, SSHPrefix)
             /\ \E readable, parses \in BOOLEAN :
                  LET r == createSSHAuth(opts.SSHKeyPath, readable, parses)
                  IN /\ keyRead' = [keyRead EXCEPT ![idx] = @ \cup r.read]
                     /\ IF r.err = "nil"
                        THEN /\ auth' = r.auth
                             /\ built' = [built EXCEPT ![idx] = @ \cup {"ssh"}]
                             /\ pc' = "plainclone"
                             /\ UNCHANGED <<idx, err, outcome>>
                        ELSE /\ CloneReturn(r.err)
                             /\ UNCHANGED <<auth, built>>
          \/ /\ ~HasPrefix(opts.URL, HTTPSPrefix)
             /\ ~HasPrefix(opts.URL, GitPrefix)
             /\ ~HasPrefix(opts.URL, SSHPrefix)
             /\ pc' = "plainclone"
             /\ UNCHANGED <<auth, idx, err, outcome, built, keyRead>>
    /\ UNCHANGED <<others, config, env, repos, fs, exitStatus, tried, fsAtCall>>

\* clone, lines 117-127: git.PlainClone into the target directory.
ClonePlain ==
    /\ pc = "plainclone"
    /\ tried' = [tried EXCEPT ![idx] = @ \cup {auth}]
    /\ \E remote \in Remotes :
         LET dir == Lookup(repos[idx].Directory)
             r == PlainClone(fs[dir], remote)
         IN /\ fs' = [fs EXCEPT ![dir] = r.tree]
            /\ IF r.ok
               THEN /\ pc' = "checkout"
                    /\ UNCHANGED <<idx, err, outcome>>
               ELSE CloneReturn("Clone")
    /\ UNCHANGED <<others, config, env, repos, auth, exitStatus, built, keyRead, fsAtCall>>

\* clone, lines 129-135: the checkout of refs/heads/development.
CloneCheckout ==
    /\ pc = "checkout"
    /\ \E io \in BOOLEAN :
         LET dir == Lookup(repos[idx].Directory)
             r == CheckoutDevelopment(fs[dir], io)
         IN /\ fs' = [fs EXCEPT ![dir] = r.tree]
            /\ IF r.ok
               THEN CloneReturn("ok")
               ELSE /\ pc' = "create"
                    /\ UNCHANGED <<idx, err, outcome>>
    /\ UNCHANGED <<others, config, env, repos, auth, exitStatus, built, keyRead, tried, fsAtCall>>

\* clone, lines 137-148: the branch development/<USER> is created and
\* checked out.
CloneCreate ==
    /\ pc = "create"
    /\ \E io \in BOOLEAN :
         LET dir == Lookup(repos[idx].Directory)
             r == CheckoutCreate(fs[dir], NewBranch, io)
         IN /\ fs' = [fs EXCEPT ![dir] = r.tree]
            /\ IF r.ok
               THEN CloneReturn("ok")
               ELSE CloneReturn("BranchCreate")
    /\ UNCHANGED <<others, config, env, repos, auth, exitStatus, built, keyRead, tried, fsAtCall>>

\* Setup, lines 58-62: an error of fetchRepositories ends the process with 1.
SetupReturn ==
    /\ pc = "setupret"
    /\ IF err # NilError
       THEN /\ pc' = "exited"
            /\ exitStatus' = {1}
       ELSE /\ pc' = "done"
            /\ UNCHANGED exitStatus
    /\ UNCHANGED <<others, config, env, repos, idx, fs, auth, err, outcome, built, keyRead, tried,
                   fsAtCall>>

Next ==
    \/ SetupLoad
    \/ SetupEnv
    \/ FetchLoop
    \/ CloneStat
    \/ CloneAuth
    \/ ClonePlain
    \/ CloneCheckout
    \/ CloneCreate
    \/ SetupReturn

Spec == Init /\ [][Next]_vars

----------------------------------------------------------------------------
(* Properties *)

Entries == DOMAIN repos

Failed(i) == outcome[i] \notin {"ok", "unprocessed"}

\* fetchRepositories has been called and has returned to Setup.
Returned == idx > 0 /\ pc \in {"setupret", "done", "exited"}

\* The working tree of entry i.
TreeOf(i) == fs[Lookup(repos[i].Directory)]

\* C1 (as stated): once the orchestrator has returned there is one result
\* for each of the N entries, failed or succeeded, and no failure of an
\* entry has reached the caller.
C1_AllEntriesHaveResults ==
    Returned =>
        /\ \A i \in Entries : outcome[i] # "unprocessed"
        /\ err = NilError

\* C1 (amended): the orchestrator returns one error value, not N results.
\* It is nil when every entry succeeded; otherwise it is the failure of the
\* first failing entry wrapped with that entry's URL, every entry before it
\* succeeded and no entry after it has a result.
C1_ReturnsFirstFailure ==
    Returned =>
        \/ /\ err = NilError
           /\ \A i \in Entries : outcome[i] = "ok"
        \/ /\ err # NilError
           /\ \E k \in Entries :
                /\ Failed(k)
                /\ err = [kind |-> outcome[k], url |-> repos[k].URL]
                /\ \A i \in Entries : i < k => outcome[i] = "ok"
                /\ \A i \in Entries : i > k => outcome[i] = "unprocessed"

\* C1 witness: the scenario of two entries whose first target directory
\* pre-exists; the orchestrator has returned and the second has no result.
C1_Witness ==
    /\ Returned
    /\ Len(repos) = 2
    /\ repos[1].URL = UrlHttps /\ repos[1].Directory = DirA
    /\ repos[2].URL = UrlGit /\ repos[2].Directory = DirB
    /\ outcome[1] = "DirectoryExists"
    /\ outcome[2] = "unprocessed"
    /\ err.kind = "DirectoryExists"

\* C2 (as stated): when an entry fails, every later entry is still
\* processed before the orchestrator returns.
C2_LaterEntriesProcessed ==
    Returned =>
        \A i, j \in Entries : (i < j /\ Failed(i)) => outcome[j] # "unprocessed"

\* C2 (amended): when an entry fails, the batch is aborted: no later entry
\* is processed (no result, no credentials, no key read, no clone), in
\* any state of the run.
C2_FailureAbortsBatch ==
    \A i, j \in Entries :
        (i < j /\ Failed(i)) =>
            /\ outcome[j] = "unprocessed"
            /\ built[j] = {}
            /\ keyRead[j] = {}
            /\ tried[j] = {}
            /\ idx = i

\* C2 witness: a transport failure of the first of two entries, the process
\* over and the second entry untouched.
C2_Witness ==
    /\ pc = "exited"
    /\ Len(repos) = 2
    /\ outcome[1] = "Clone"
    /\ outcome[2] = "unprocessed"
    /\ TreeOf(2).state = "absent"

\* The clone call in progress, or the one that ended the loop, is past its
\* os.Stat check.
PastStat ==
    /\ idx \in Entries
    /\ pc \in {"auth", "plainclone", "checkout", "create", "setupret", "done", "exited"}

\* C3: a clone call whose target directory existed when it was entered
\* returns the directory-exists error, has attempted no clone and has left
\* the disk as it found it.
C3_ExistingDirectoryRefused ==
    (PastStat /\ fsAtCall[Lookup(repos[idx].Directory)].state # "absent") =>
        /\ outcome[idx] = "DirectoryExists"
        /\ tried[idx] = {}
        /\ fs = fsAtCall

\* C3 witness: the second entry names the directory the first was cloned
\* into, and is refused.
C3_Witness ==
    /\ PastStat
    /\ idx = 2
    /\ fsAtCall[Lookup(repos[2].Directory)].state = "cloned"
    /\ outcome[2] = "DirectoryExists"

\* Entry i has been through the credential step of clone.
PastAuth(i) == tried[i] # {} \/ (i = idx /\ pc = "plainclone")

IsHttps(url) == HasPrefix(url, HTTPSPrefix)

IsSsh(url) == HasPrefix(url, GitPrefix) \/ HasPrefix(url, SSHPrefix)

\* C4 (as stated): after a clone that succeeded from a remote that has a
\* development branch, the working tree is on development and has no
\* development/<user> branch.
C4_DevelopmentCheckedOut ==
    \A i \in Entries :
        (outcome[i] = "ok" /\ Development \in TreeOf(i).tracking) =>
            /\ TreeOf(i).head = Development
            /\ (<<"development">> \o env.USER) \notin LocalNames(TreeOf(i))

\* C5: after a clone that succeeded from a remote without a development
\* branch, the working tree is on development/<USER>, a local branch at the
\* commit of the cloned HEAD.
C5_FallbackBranchAtHead ==
    \A i \in Entries :
        (outcome[i] = "ok" /\ Development \notin TreeOf(i).tracking) =>
            LET tree == TreeOf(i)
                fallback == <<"development">> \o env.USER
            IN /\ tree.head = fallback
               /\ \E ref, cloned \in tree.local :
                    /\ ref.name = fallback
                    /\ cloned.name # fallback
                    /\ cloned.name \in tree.tracking
                    /\ cloned.commit = Tip(cloned.name)
                    /\ ref.commit = cloned.commit

\* C5 witness: a clone of a remote that has only main ended on
\* development/u.
C5_Witness ==
    \E i \in Entries :
        /\ outcome[i] = "ok"
        /\ TreeOf(i).tracking = {Main}
        /\ TreeOf(i).head = DevU
        /\ [name |-> DevU, commit |-> Tip(Main)] \in TreeOf(i).local

\* The credentials an https:// entry is cloned with: GIT_USER and GIT_TOKEN
\* of the environment, empty when unset.
ExpectedBasicAuth ==
    [kind |-> "basic", username |-> env.GIT_USER, password |-> env.GIT_TOKEN,
     keyPath |-> Empty]

\* C6: for an https:// entry no key file is read and no SSH credentials are
\* built, whatever SSH_KEY_PATH and SSH_KEY_NAME are; once its credential
\* step is over the credentials are the basic ones of GIT_USER and
\* GIT_TOKEN, and every clone is attempted with them.
C6_HttpsIsBasicAuth ==
    \A i \in Entries :
        IsHttps(repos[i].URL) =>
            /\ keyRead[i] = {}
            /\ built[i] \subseteq {"basic"}
            /\ tried[i] \subseteq {ExpectedBasicAuth}
            /\ PastAuth(i) => built[i] = {"basic"}
            /\ (i = idx /\ pc = "plainclone") => auth = ExpectedBasicAuth

\* C6 witness: an https:// entry cloned as bob/tok while SSH_KEY_PATH and
\* SSH_KEY_NAME are set.
C6_Witness ==
    \E i \in Entries :
        /\ IsHttps(repos[i].URL)
        /\ env.SSH_KEY_PATH # Empty
        /\ env.SSH_KEY_NAME # Empty
        /\ tried[i] = {[kind |-> "basic", username |-> <<"bob">>,
                        password |-> <<"tok">>, keyPath |-> Empty]}

\* The key file of the claim: <SSH_KEY_PATH>/<name> for a directory,
\* SSH_KEY_PATH itself otherwise, <home>/.ssh/<name> when it is unset, with
\* <name> being SSH_KEY_NAME or "id_rsa".
ExpectedKeyName == IF env.SSH_KEY_NAME = Empty THEN <<"id_rsa">> ELSE env.SSH_KEY_NAME

ExpectedKeyPath ==
    IF env.SSH_KEY_PATH = Empty THEN env.HOME \o <<".ssh">> \o ExpectedKeyName
    ELSE IF Lookup(env.SSH_KEY_PATH) \in KeyDirs
         THEN env.SSH_KEY_PATH \o ExpectedKeyName
         ELSE env.SSH_KEY_PATH

\* C7: for a git@ or ssh:// entry no basic credentials are built; the only
\* key file read is the expected one, and once its credential step is over
\* the credentials are SSH credentials of that key file (the same file;
\* verbatim when SSH_KEY_PATH is not a directory).
C7_SshIsKeyAuth ==
    \A i \in Entries :
        IsSsh(repos[i].URL) =>
            /\ built[i] \subseteq {"ssh"}
            /\ \A path \in keyRead[i] : Lookup(path) = Lookup(ExpectedKeyPath)
            /\ \A a \in tried[i] \cup (IF i = idx /\ pc = "plainclone" THEN {auth} ELSE {}) :
                 /\ a.kind = "ssh"
                 /\ Lookup(a.keyPath) = Lookup(ExpectedKeyPath)
                 /\ (~IsDir(env.SSH_KEY_PATH) /\ env.SSH_KEY_PATH # Empty)
                        => a.keyPath = env.SSH_KEY_PATH
                 /\ keyRead[i] = {a.keyPath}
            /\ PastAuth(i) => built[i] = {"ssh"}

\* C7 witness: a git@ entry cloned with the key /keys/id_ed, SSH_KEY_PATH
\* being the directory /keys.
C7_Witness ==
    \E i \in Entries :
        /\ repos[i].URL = UrlGit
        /\ env.SSH_KEY_PATH = <<"", "keys">>
        /\ \E a \in tried[i] : a.kind = "ssh" /\ a.keyPath = <<"", "keys", "id_ed">>

\* C8 (as stated): every entry a clone was attempted for had exactly one
\* kind of credentials constructed, the kind its URL prefix selects.
C8_ExactlyOneCredentials ==
    \A i \in Entries :
        PastAuth(i) =>
            /\ Cardinality(built[i]) = 1
            /\ built[i] = IF IsHttps(repos[i].URL) THEN {"basic"} ELSE {"ssh"}

\* C9 (as stated): an entry whose URL has none of the three prefixes fails
\* with the unsupported-scheme error and no clone is attempted for it.
C9_UnsupportedSchemeRefused ==
    \A i \in Entries :
        (~IsHttps(repos[i].URL) /\ ~IsSsh(repos[i].URL)) =>
            /\ tried[i] = {}
            /\ (i < idx \/ Returned) =>
                 outcome[i] \in {"UnsupportedScheme", "DirectoryExists", "unprocessed"}

\* C10 (as stated): no failure of a clone, or of the loop over the list,
\* becomes a process exit.
C10_FailureNeverExits ==
    ~(pc = "exited" /\ err # NilError)

InCloneEngine == pc \in {"stat", "auth", "plainclone", "checkout", "create"}

InOrchestrator == pc = "fetch" \/ InCloneEngine

\* C10 (amended): clone and fetchRepositories never end the process: a step
\* of theirs leaves the process running, and a failure in it is handed to
\* Setup as the error value fetchRepositories returns.  It is Setup, their
\* caller, that ends the process with status 1.
C10_OnlySetupExits ==
    [][ /\ InOrchestrator =>
            /\ pc' # "exited"
            /\ exitStatus' = NoExit
            /\ \A i \in Entries :
                 (Failed(i))' /\ ~Failed(i) =>
                    /\ pc' = "setupret"
                    /\ err' = [kind |-> outcome'[i], url |-> repos[i].URL]
        /\ exitStatus' # exitStatus => pc \in {"load", "setupret"} /\ exitStatus' = {1}
      ]_vars

\* C10 witness: the error of a failed clone is in Setup's hands, the
\* process still running.
C10_Witness ==
    /\ pc = "setupret"
    /\ err.kind = "Clone"
    /\ exitStatus = NoExit

\* C11: the checkout of development and the creation of the fallback
\* branch are reached only in a clone call whose git.PlainClone succeeded
\* into a directory that was absent; a call that failed at the directory
\* check, at the credentials or at the clone has left every tree as it
\* was: nothing checked out, no branch created.
C11_BranchResolutionAfterClone ==
    /\ pc \in {"checkout", "create"} =>
          /\ TreeOf(idx).state = "cloned"
          /\ fsAtCall[Lookup(repos[idx].Directory)].state = "absent"
          /\ tried[idx] # {}
    /\ \A i \in Entries :
          outcome[i] \in {"DirectoryExists", "HomeDir", "KeyRead", "KeyParse", "Clone"} =>
              /\ fs = fsAtCall
              /\ i = idx

\* C11 witness: the clone of an entry has succeeded and its branch
\* resolution is about to start.
C11_Witness ==
    /\ pc = "checkout"
    /\ TreeOf(idx).state = "cloned"
    /\ TreeOf(idx).head = Main

Untouched(i) ==
    /\ outcome[i] = "unprocessed"
    /\ built[i] = {}
    /\ keyRead[i] = {}
    /\ tried[i] = {}

\* C13: the entries are the ones of the configuration file in its order;
\* at any time every entry before the loop position has finished, every
\* entry after it is untouched, and the position only moves to the next
\* entry, when the call for the current one has returned.
C13_InOrderOneAtATime ==
    /\ pc \notin {"load", "exited"} \/ idx > 0 =>
          /\ Len(repos) = Len(config.repositories)
          /\ \A i \in Entries :
                /\ repos[i].URL = config.repositories[i].URL
                /\ repos[i].Directory = config.repositories[i].Directory
    /\ \A i \in Entries :
          /\ i < idx => outcome[i] = "ok"
          /\ i > idx => Untouched(i)
          /\ (i = idx /\ pc \in {"fetch", "stat"}) => Untouched(i)
    /\ idx \in 0 .. Len(repos) + 1

\* C13 witness: the second entry is being cloned, the first has finished.
C13_Witness ==
    /\ Len(repos) = 2
    /\ repos[1].URL # repos[2].URL
    /\ idx = 2
    /\ pc = "plainclone"
    /\ outcome[1] = "ok"
    /\ outcome[2] = "unprocessed"

\* C14: createSSHAuth on a key file that cannot be read returns the
\* key-read error and no credentials; an entry that failed with it had no
\* credentials built, no clone attempted and no target directory created.
C14_UnreadableKeyStopsEntry ==
    \A i \in Entries :
        /\ (IsSsh(repos[i].URL) /\ idx > 0) =>
              \A parses \in BOOLEAN :
                 LET r == createSSHAuth(repos[i].SSHKeyPath, FALSE, parses)
                 IN r.read # {} => (r.err = "KeyRead" /\ r.auth = NoAuth)
        /\ outcome[i] = "KeyRead" =>
              /\ IsSsh(repos[i].URL)
              /\ keyRead[i] # {}
              /\ built[i] = {}
              /\ tried[i] = {}
              /\ TreeOf(i).state = "absent"
              /\ fs = fsAtCall

\* C14 witness: a git@ entry has failed on its key file, /keys/id_ed.
C14_Witness ==
    \E i \in Entries :
        /\ outcome[i] = "KeyRead"
        /\ repos[i].URL = UrlGit
        /\ keyRead[i] = {<<"", "keys", "id_ed">>}
        /\ TreeOf(i).state = "absent"

\* C15: a step changes the disk only inside clone, and only the target
\* directory of the entry being cloned, which was absent when the call was
\* entered and holds the clone afterwards; a directory that existed when
\* the call was entered is left as it was.
C15_OnlyCloneWritesNewTrees ==
    [][ fs' # fs =>
          /\ InCloneEngine
          /\ \A d \in Dirs :
                fs'[d] # fs[d] =>
                   /\ d = Lookup(repos[idx].Directory)
                   /\ fsAtCall[d].state = "absent"
                   /\ fs'[d].state = "cloned"
      ]_vars

\* C15 witness: /tmp/a existed before the run and is unchanged after a run
\* that cloned into /tmp/b and was refused /tmp/a.
C15_Witness ==
    /\ pc = "exited"
    /\ Len(repos) = 2
    /\ fs[DirA] = PreExisting
    /\ fs[DirB].state = "cloned"
    /\ repos[2].Directory = DirA
    /\ outcome[2] = "DirectoryExists"

\* The branch the README promises for a cloned tree: development when the
\* remote has it, development/<USER> otherwise.
AppropriateBranch(tree) ==
    IF Development \in tree.tracking THEN Development ELSE NewBranch

\* C16 (as stated): when a setup run has come to its end without an error,
\* every repository listed in the configuration file is cloned into its
\* directory and its working tree is on the appropriate branch.
C16_SetupClonesAllOnBranch ==
    pc = "done" =>
        \A i \in Entries :
            /\ TreeOf(i).state = "cloned"
            /\ TreeOf(i).head = AppropriateBranch(TreeOf(i))

----------------------------------------------------------------------------
(* Configuration loading: loadConfigFile (git/git.go), FetchRepositories   *)
(* and configDecode (utils), and the helpers of the tests that write a     *)
(* configuration file.                                                     *)
(*                                                                         *)
(* A file name is a string, so that suffixes and extensions are computed   *)
(* on its characters; a path is the sequence of its "/"-separated names.   *)
(* The text of a RepoInfo field is the sequence of its characters.         *)

\* Longest repository list written to a configuration file.
MaxWritten == 2

\* "/home/u"
HomeDir == <<"", "home", "u">>

\* strings.HasSuffix
HasSuffix(s, suffix) ==
    /\ Len(s) >= Len(suffix)
    /\ SubSeq(s, Len(s) - Len(suffix) + 1, Len(s)) = suffix

\* Position of the last "." of a name, 0 when it has none.
RECURSIVE LastDot(_, _)
LastDot(name, i) ==
    IF i = 0 THEN 0
    ELSE IF SubSeq(name, i, i) = "." THEN i
    ELSE LastDot(name, i - 1)

\* filepath.Ext: the suffix of the last name of the path that begins at its
\* final dot, "" when it has no dot.
Ext(path) ==
    LET name == path[Len(path)]
        d == LastDot(name, Len(name))
    IN IF d = 0 THEN "" ELSE SubSeq(name, d, Len(name))

\* filepath.Base: the last name of the path, trailing slashes removed;
\* "." for the empty path and "/" for a path of slashes only.
RECURSIVE Base(_)
Base(path) ==
    IF path = Empty THEN "."
    ELSE IF path[Len(path)] # "" THEN path[Len(path)]
    ELSE IF Len(path) = 1 THEN "/"
    ELSE Base(SubSeq(path, 1, Len(path) - 1))

IsFileJSON(file) == Ext(file) = ".json"

IsFileYAML(file) == Ext(file) = ".yaml" \/ Ext(file) = ".yml"

extensionsYAML == <<".yml", ".yaml">>

\* os.Stat(path) succeeds.
Exists(path) == path \in DOMAIN disk

\* os.UserHomeDir fails when $HOME is empty.
YmlOrYamlExistsInHomeDir ==
    /\ env.HOME # Empty
    /\ \E i \in DOMAIN extensionsYAML :
          Exists(env.HOME \o <<".config" \o extensionsYAML[i]>>)

loadConfigFile(f) ==
    IF YmlOrYamlExistsInHomeDir
    THEN IF HasSuffix(f, ".yaml")
         THEN GetEnvOrDefault("CONFIG_FILE", env.HOME \o <<".config.yaml">>)
         ELSE GetEnvOrDefault("CONFIG_FILE", env.HOME \o <<".config.yml">>)
    ELSE GetEnvOrDefault("CONFIG_FILE", env.HOME \o <<".config.json">>)

\* Characters of the texts of the model.  BadByte is a byte that is not
\* valid UTF-8 (0xFF); Replacement is the rune U+FFFD.
BadByte == "0xFF"
Replacement == "U+FFFD"

\* "a\"b", "\\", "<", "~" and the byte string {0xFF}
TextQuote == <<"a", "\"", "b">>
TextBackslash == <<"\\">>
TextAngle == <<"<">>
TextTilde == <<"~">>
TextBad == <<BadByte>>
TextRepo == <<"r">>

utf8ValidString(s) == \A i \in DOMAIN s : s[i] # BadByte

\* encoding/json, encodeState.string with escapeHTML set, as the Encoder
\* has it: the characters written for one character of the text.
jsonEscape(c) ==
    CASE c = "\"" -> <<"\\", "\"">>
      [] c = "\\" -> <<"\\", "\\">>
      [] c = "<" -> <<"\\", "u", "0", "0", "3", "c">>
      [] c = BadByte -> <<"\\", "u", "f", "f", "f", "d">>
      [] OTHER -> <<c>>

RECURSIVE jsonString(_)
jsonString(s) ==
    IF s = <<>> THEN <<>> ELSE jsonEscape(Head(s)) \o jsonString(Tail(s))

\* encoding/json, unquote: the rune of a \uXXXX escape.
jsonRune(hex) ==
    CASE hex = <<"0", "0", "3", "c">> -> "<"
      [] hex = <<"f", "f", "f", "d">> -> Replacement

RECURSIVE jsonUnquote(_)
jsonUnquote(t) ==
    IF t = <<>> THEN <<>>
    ELSE IF Head(t) # "\\" THEN <<Head(t)>> \o jsonUnquote(Tail(t))
    ELSE IF t[2] = "u"
         THEN <<jsonRune(SubSeq(t, 3, 6))>> \o jsonUnquote(SubSeq(t, 7, Len(t)))
         ELSE <<t[2]>> \o jsonUnquote(SubSeq(t, 3, Len(t)))

\* json.NewEncoder(f).Encode(cfg): a nil slice is written as null, and the
\* fields under the keys of their json tags.
JSONNull == [kind |-> "null"]

jsonEncode(repositories) ==
    [format |-> "json",
     repositories |->
        IF repositories = <<>> THEN JSONNull
        ELSE [kind |-> "array",
              items |-> [i \in DOMAIN repositories |->
                           [url |-> jsonString(repositories[i].URL),
                            directory |-> jsonString(repositories[i].Directory)]]],
     applications |-> JSONNull]

\* json.NewDecoder(f).Decode(&cfg), the Repositories field.
jsonDecode(doc) ==
    IF doc.repositories.kind = "null" THEN <<>>
    ELSE [i \in DOMAIN doc.repositories.items |->
            [URL |-> jsonUnquote(doc.repositories.items[i].url),
             Directory |-> jsonUnquote(doc.repositories.items[i].directory)]]

\* yaml.v3, resolve: the tag an untagged plain scalar resolves to.
yamlResolve(s) ==
    IF s = <<>> \/ s = <<"~">> THEN "!!null" ELSE "!!str"

\* base64 is a bijection on byte strings and is kept symbolic.
encodeBase64(s) == <<"base64", s>>
decodeBase64(b) == b[2]

yamlString_AlwaysPlain(s) ==
    [tag |-> "", style |-> "plain", value |-> s]

\* yaml.v3, encoder.stringv: a string that is not valid UTF-8 is written
\* as !!binary in base64; a string that would resolve to another type is
\* quoted; every other string is written plain.
yamlString(s) ==
    IF ~utf8ValidString(s)
    THEN [tag |-> "!!binary", style |-> "plain", value |-> encodeBase64(s)]
    ELSE IF yamlResolve(s) # "!!str"
    THEN [tag |-> "", style |-> "quoted", value |-> s]
    ELSE [tag |-> "", style |-> "plain", value |-> s]

\* yaml.v3, decoder.scalar into a string field: !!binary is decoded from
\* base64, a null leaves the zero value, a string is taken as it is.
yamlScalar(n) ==
    IF n.tag = "!!binary" THEN decodeBase64(n.value)
    ELSE IF n.style = "plain" /\ yamlResolve(n.value) = "!!null" THEN <<>>
    ELSE n.value

\* yaml.Marshal(cfg): a nil slice is written as the empty sequence [].
yamlMarshal(repositories) ==
    [format |-> "yaml",
     repositories |->
        [i \in DOMAIN repositories |->
           [url |-> yamlString(repositories[i].URL),
            directory |-> yamlString(repositories[i].Directory)]],
     applications |-> <<>>]

\* yaml.NewDecoder(f).Decode(&cfg), the Repositories field.
yamlDecode(doc) ==
    [i \in DOMAIN doc.repositories |->
       [URL |-> yamlScalar(doc.repositories[i].url),
        Directory |-> yamlScalar(doc.repositories[i].directory)]]

\* configDecode: the decoder is chosen by the extension of the file; a
\* file of another extension is not decoded and leaves cfg as it was.
configDecode(file) ==
    IF IsFileJSON(file) THEN jsonDecode(disk[file])
    ELSE IF IsFileYAML(file) THEN yamlDecode(disk[file])
    ELSE <<>>

FetchRepositories(file) ==
    IF ~Exists(file)
    THEN [repos |-> <<>>, err |-> "open"]
    ELSE [repos |-> configDecode(file), err |-> "nil"]

\* The lists the tests write, and the file a user keeps in the home
\* directory.
ConfigRepoInfos ==
    { [URL |-> UrlHttps, Directory |-> TextRepo],
      [URL |-> TextQuote, Directory |-> TextBackslash],
      [URL |-> TextAngle, Directory |-> TextTilde],
      [URL |-> <<>>, Directory |-> TextRepo],
      [URL |-> TextBad, Directory |-> TextRepo] }

WrittenLists == SeqsUpTo(ConfigRepoInfos, MaxWritten)

UserRepos == << [URL |-> UrlHttps, Directory |-> TextRepo] >>

\* createTempJSONConfig, createTempYAMLConfig, createTempYMLConfig: the
\* file name and the content written.
TempFile(kind) == <<"", "tmp", "config." \o kind>>

Encoded(kind, repositories) ==
    IF kind = "json" THEN jsonEncode(repositories) ELSE yamlMarshal(repositories)

HomeConfigs ==
    { HomeDir \o <<".config.json">>, HomeDir \o <<".config.yml">>,
      HomeDir \o <<".config.yaml">> }

ConfigEnvs ==
    [CONFIG_FILE : {Empty, TempFile("yaml"), HomeDir \o <<".config.json">>},
     HOME : {HomeDir, Empty}]

\* The clone component while it does not run.
GitIdle ==
    /\ pc = "off"
    /\ config = Unreadable
    /\ repos = <<>>
    /\ idx = 0
    /\ fs = [d \in Dirs |-> Absent]
    /\ auth = NoAuth
    /\ err = NilError
    /\ outcome = <<>>
    /\ built = <<>>
    /\ keyRead = <<>>
    /\ tried = <<>>
    /\ fsAtCall = fs

ConfigInit ==
    /\ GitIdle
    /\ exitStatus = NoExit
    /\ env \in ConfigEnvs
    /\ cpc = "start"
    /\ \E present \in SUBSET HomeConfigs :
          disk = [p \in present |->
                    Encoded(IF IsFileJSON(p) THEN "json" ELSE "yaml", UserRepos)]
    /\ cfg = Empty
    /\ written = <<>>
    /\ got = <<>>
    /\ DotEnvIdle
    /\ UseCaseIdle
    /\ EntityIdle
    /\ ImageIdle
    /\ SharedIdle

\* A test helper writes a list to a fresh file and returns its path.
ConfigWrite ==
    /\ cpc = "start"
    /\ \E kind \in {"json", "yaml", "yml"}, repositories \in WrittenLists :
          /\ disk' = [p \in DOMAIN disk \cup {TempFile(kind)} |->
                        IF p = TempFile(kind) THEN Encoded(kind, repositories)
                        ELSE disk[p]]
          /\ written' = << [repos |-> repositories, file |-> TempFile(kind)] >>
          /\ cfg' = TempFile(kind)
    /\ cpc' = "written"
    /\ UNCHANGED <<outsideConfig, env, exitStatus, got>>

\* Setup, line 44.
ConfigResolve ==
    /\ cpc \in {"start", "written"}
    /\ cfg' = loadConfigFile(Base(env.CONFIG_FILE))
    /\ cpc' = "resolved"
    /\ UNCHANGED <<outsideConfig, env, exitStatus, disk, written, got>>

\* Setup, line 45, and the call of the tests.
ConfigFetch ==
    /\ cpc \in {"written", "resolved"}
    /\ got' = << FetchRepositories(cfg) >>
    /\ cpc' = IF cpc = "written" THEN "fetched" ELSE "loaded"
    /\ UNCHANGED <<outsideConfig, env, exitStatus, disk, cfg, written>>

ConfigNext == ConfigWrite \/ ConfigResolve \/ ConfigFetch

ConfigSpec == ConfigInit /\ [][ConfigNext]_vars

\* C17 (as stated): when CONFIG_FILE is not set, the path Setup loads the
\* repositories from is $HOME/.config.json.
C17_DefaultIsHomeConfigJSON ==
    (cpc \in {"resolved", "loaded"} /\ env.CONFIG_FILE = Empty) =>
        cfg = env.HOME \o <<".config.json">>

\* The test called FetchRepositories on the file it wrote.
Fetched == cpc = "fetched"

\* C18 (as stated): FetchRepositories on a file a list was written to, with
\* extension .json, .yaml or .yml, returns no error and the written list.
C18_RoundTripAnyList ==
    Fetched =>
        /\ got[1].err = "nil"
        /\ got[1].repos = written[1].repos

\* strings.ToValidUTF8(s, "\uFFFD") for texts whose invalid bytes are not
\* adjacent: what encoding/json coerces a string to.
ToValidUTF8(s) ==
    [i \in DOMAIN s |-> IF s[i] = BadByte THEN Replacement ELSE s[i]]

\* C18 (amended): FetchRepositories on a file a list was written to returns
\* no error and a list of the same length, in the same order; from a .yaml
\* or .yml file every element equals the written one, and from a .json
\* file every element equals the written one with each byte that is not
\* valid UTF-8 replaced by U+FFFD, so it equals the written one when the
\* URL and the directory are valid UTF-8.
C18_RoundTripValidUTF8 ==
    Fetched =>
        LET w == written[1].repos
            g == got[1].repos
        IN /\ got[1].err = "nil"
           /\ Len(g) = Len(w)
           /\ \A i \in DOMAIN w :
                 IF IsFileJSON(cfg)
                 THEN /\ g[i].URL = ToValidUTF8(w[i].URL)
                      /\ g[i].Directory = ToValidUTF8(w[i].Directory)
                 ELSE g[i] = w[i]

\* C18 witness: a list of two repositories, one with a quote and a
\* backslash and one with "<" and "~", read back from config.json.
C18_Witness ==
    /\ Fetched
    /\ cfg = TempFile("json")
    /\ written[1].repos = << [URL |-> TextQuote, Directory |-> TextBackslash],
                             [URL |-> TextAngle, Directory |-> TextTilde] >>
    /\ got[1].repos = written[1].repos
    /\ got[1].err = "nil"

----------------------------------------------------------------------------
(* LoadDotEnv (utils/load_env_config.go and utils/dot_env.go)              *)

\* The variables a .env file of the model assigns, and the files.  An
\* environment variable of value Empty is one that is not set.
DotEnvKeys == {"GIT_USER", "GIT_TOKEN"}

DotEnvFiles ==
    {NoDotEnv, [state |-> "malformed", vars |-> <<>>]}
      \cup { [state |-> "ok", vars |-> v] :
               v \in UNION { [K -> {<<"bob">>, <<"tok">>}] : K \in SUBSET DotEnvKeys } }

DotEnvEnvs ==
    [HOME : {HomeDir, Empty}, GIT_USER : {Empty, <<"ann">>},
     GIT_TOKEN : {Empty, <<"old">>}]

\* godotenv.Load(filename): the file is opened and parsed, and every
\* variable it assigns that the environment does not have is set.
godotenvLoad(file, e) ==
    IF file.state = "missing" THEN [err |-> "open", env |-> e]
    ELSE IF file.state = "malformed" THEN [err |-> "parse", env |-> e]
    ELSE [err |-> "nil",
          env |-> [k \in DOMAIN e |->
                     IF k \in DOMAIN file.vars /\ e[k] = Empty
                     THEN file.vars[k] ELSE e[k]]]

\* log.Fatalf: the message is printed and os.Exit(1) is called; log.Fatalf
\* does not return, so the statement after it is not executed.
logFatalf == {1}

\* A panic that nothing recovers ends the process with status 2.
panic == {2}

DotEnvInit ==
    /\ GitIdle
    /\ ConfigIdle
    /\ exitStatus = NoExit
    /\ env \in DotEnvEnvs
    /\ dpc = "home"
    /\ impl \in {"load_env_config.go", "dot_env.go"}
    /\ dotenv \in DotEnvFiles
    /\ ret = <<>>
    /\ UseCaseIdle
    /\ EntityIdle
    /\ ImageIdle
    /\ SharedIdle

\* os.UserHomeDir and the handling of its error: returned by
\* load_env_config.go (lines 27-30), a panic in dot_env.go (lines 25-28).
LoadDotEnvHomeDir ==
    /\ dpc = "home"
    /\ IF env.HOME # Empty
       THEN /\ dpc' = "load"
            /\ UNCHANGED <<ret, exitStatus>>
       ELSE IF impl = "load_env_config.go"
       THEN /\ dpc' = "returned"
            /\ ret' = <<"home directory">>
            /\ UNCHANGED exitStatus
       ELSE /\ dpc' = "exited"
            /\ exitStatus' = panic
            /\ UNCHANGED ret
    /\ UNCHANGED <<outsideDotEnv, env, impl, dotenv>>

\* godotenv.Load(homeDir + "/.env") and the handling of its error
\* (load_env_config.go, lines 32-37; dot_env.go, lines 30-37).
LoadDotEnvLoad ==
    /\ dpc = "load"
    /\ LET r == godotenvLoad(dotenv, env)
       IN IF r.err # "nil"
          THEN /\ exitStatus' = logFatalf
               /\ dpc' = "exited"
               /\ UNCHANGED <<env, ret>>
          ELSE /\ env' = r.env
               /\ ret' = <<"nil">>
               /\ dpc' = "returned"
               /\ UNCHANGED exitStatus
    /\ UNCHANGED <<outsideDotEnv, impl, dotenv>>

DotEnvNext == LoadDotEnvHomeDir \/ LoadDotEnvLoad

DotEnvSpec == DotEnvInit /\ [][DotEnvNext]_vars

\* LoadDotEnv is over and godotenv.Load failed on the .env file.
DotEnvNotLoaded ==
    /\ dpc \in {"returned", "exited"}
    /\ env.HOME # Empty
    /\ dotenv.state # "ok"

\* C19 (as stated): when the .env file of the home directory cannot be
\* loaded, LoadDotEnv terminates the program with exit status 125.
C19_UnloadableExits125 ==
    DotEnvNotLoaded => exitStatus = {125}

----------------------------------------------------------------------------
(* SetupRepositoriesUseCase (internal/application/usecases): Execute,      *)
(* validateRequest and setupSingleRepository.  Names and directories are   *)
(* sequences of "/"-separated pieces, URLs sequences of characters.        *)

\* Longest repository list of a request, and the Execute calls of a run.
MaxRequest == 2
MaxRuns == 2

\* "/tmp/repos"
WorkDir == <<"", "tmp", "repos">>

RepositorySetupDatas ==
    { [Name |-> <<"a">>, URL |-> UrlHttps, Branch |-> Main],
      [Name |-> <<"b">>, URL |-> UrlHttps, Branch |-> Main],
      [Name |-> Empty, URL |-> UrlHttps, Branch |-> Main],
      [Name |-> <<"b">>, URL |-> UrlGit, Branch |-> Main] }

Requests ==
    [Repositories : SeqsUpTo(RepositorySetupDatas, MaxRequest),
     ForceClone : BOOLEAN,
     WorkingDir : {WorkDir, Empty}]

\* entities.NewRepository: the name is not empty, the URL has the scheme
\* http, https or ssh, and the branch is not empty.
NewRepository(name, urlStr, branch) ==
    /\ name # Empty
    /\ \/ HasPrefix(urlStr, HTTPSPrefix)
       \/ HasPrefix(urlStr, <<"h","t","t","p",":","/","/">>)
       \/ HasPrefix(urlStr, SSHPrefix)
    /\ branch # Empty

validateRequest(req) ==
    IF Len(req.Repositories) = 0 THEN "at least one repository must be specified"
    ELSE IF req.WorkingDir = Empty THEN "working directory must be specified"
    ELSE IF \E i, j \in DOMAIN req.Repositories :
               i < j /\ req.Repositories[i].Name = req.Repositories[j].Name
    THEN "duplicate repository name"
    ELSE "nil"

Result(name, status, message, localPath) ==
    [Name |-> name, Status |-> status, Message |-> message, LocalPath |-> localPath]

\* setupSingleRepository: the result, the store afterwards and whether
\* gitPort.Clone was invoked.  find is FALSE when FindByName fails with an
\* error that is not "not found"; clone and save are FALSE when
\* gitPort.Clone and repositoryRepo.Save fail.
setupSingleRepository(repoData, forceClone, workingDir, st, find, clone, save) ==
    LET name == repoData.Name
        localPath == Join(<<workingDir, name>>)
        same(r) == [result |-> r, store |-> st, cloned |-> FALSE]
    IN IF ~NewRepository(name, repoData.URL, repoData.Branch)
       THEN same(Result(name, "failed", "Failed to create repository entity", Empty))
       ELSE IF ~find
       THEN same(Result(name, "failed", "Failed to check existing repository", Empty))
       ELSE IF name \in DOMAIN st /\ ~forceClone
       THEN same(Result(name, "skipped",
                        "Repository already exists (use force_clone to override)",
                        st[name]))
       ELSE IF localPath = Empty
       THEN same(Result(name, "failed", "Failed to set local path", Empty))
       ELSE IF ~clone
       THEN [result |-> Result(name, "failed", "Failed to clone repository", Empty),
             store |-> st, cloned |-> TRUE]
       ELSE IF ~save
       THEN [result |-> Result(name, "failed", "Failed to save repository", Empty),
             store |-> st, cloned |-> TRUE]
       ELSE [result |-> Result(name, "success",
                               "Repository successfully cloned and configured",
                               localPath),
             store |-> [n \in DOMAIN st \cup {name} |->
                          IF n = name THEN localPath ELSE st[n]],
             cloned |-> TRUE]

\* Execute counts a result as a success when its status is "success" and
\* as a failure otherwise.
Counted(resp, result) ==
    [resp EXCEPT
       !.SetupResults = Append(@, result),
       !.SuccessCount = IF result.Status = "success" THEN @ + 1 ELSE @,
       !.FailureCount = IF result.Status = "success" THEN @ ELSE @ + 1]

UseCaseInit ==
    /\ GitIdle
    /\ ConfigIdle
    /\ DotEnvIdle
    /\ env = [HOME |-> HomeDir]
    /\ exitStatus = NoExit
    /\ upc = "validate"
    /\ request \in Requests
    /\ \E saved \in SUBSET {<<"a">>, <<"b">>} :
          store = [n \in saved |-> Join(<<WorkDir, n>>)]
    /\ response = NoResponse
    /\ uidx = 0
    /\ execErr = "nil"
    /\ runs = 1
    /\ startStore = store
    /\ cloneCalls = {}
    /\ EntityIdle
    /\ ImageIdle
    /\ SharedIdle

\* Execute, the validation and the new response.
ExecuteValidate ==
    /\ upc = "validate"
    /\ execErr' = validateRequest(request)
    /\ IF execErr' # "nil"
       THEN /\ upc' = "returned"
            /\ UNCHANGED <<response, uidx>>
       ELSE /\ upc' = "loop"
            /\ response' = [NoResponse EXCEPT !.TotalCount = Len(request.Repositories)]
            /\ uidx' = 1
    /\ UNCHANGED <<outsideUseCase, request, store, runs, startStore, cloneCalls>>

\* Execute, one iteration of the loop over request.Repositories.
ExecuteLoop ==
    /\ upc = "loop"
    /\ uidx <= Len(request.Repositories)
    /\ \E find, clone, save \in BOOLEAN :
         LET repoData == request.Repositories[uidx]
             r == setupSingleRepository(repoData, request.ForceClone,
                                        request.WorkingDir, store, find, clone, save)
         IN /\ response' = Counted(response, r.result)
            /\ store' = r.store
            /\ cloneCalls' = IF r.cloned THEN cloneCalls \cup {repoData.Name}
                             ELSE cloneCalls
    /\ uidx' = uidx + 1
    /\ UNCHANGED <<outsideUseCase, upc, request, execErr, runs, startStore>>

\* Execute, the return after the loop.
ExecuteReturn ==
    /\ upc = "loop"
    /\ uidx > Len(request.Repositories)
    /\ upc' = "returned"
    /\ UNCHANGED <<outsideUseCase, request, store, response, uidx, execErr, runs,
                   startStore, cloneCalls>>

\* The caller runs the same request again.
ExecuteAgain ==
    /\ upc = "returned"
    /\ runs < MaxRuns
    /\ runs' = runs + 1
    /\ upc' = "validate"
    /\ response' = NoResponse
    /\ uidx' = 0
    /\ startStore' = store
    /\ cloneCalls' = {}
    /\ UNCHANGED <<outsideUseCase, request, store, execErr>>

UseCaseNext == ExecuteValidate \/ ExecuteLoop \/ ExecuteReturn \/ ExecuteAgain

UseCaseSpec == UseCaseInit /\ [][UseCaseNext]_vars

\* The results of the response that have the given status.
WithStatus(status) ==
    {i \in DOMAIN response.SetupResults : response.SetupResults[i].Status = status}

\* Entry i of the request was in the store when Execute was entered, and
\* its lookup did not fail.
FoundInStore(i) ==
    /\ i \in DOMAIN response.SetupResults
    /\ request.Repositories[i].Name \in DOMAIN startStore
    /\ response.SetupResults[i].Message \notin
          {"Failed to check existing repository", "Failed to create repository entity"}

\* C20 (as stated): with force off, a repository that is already in the
\* store is reported as skipped, Clone is not invoked for it, and a skipped
\* result is counted neither as a success nor as a failure.
C20_SkippedIsNotCounted ==
    (upc = "returned" /\ execErr = "nil" /\ ~request.ForceClone) =>
        /\ \A i \in DOMAIN response.SetupResults :
              FoundInStore(i) =>
                 /\ response.SetupResults[i].Status = "skipped"
                 /\ request.Repositories[i].Name \notin cloneCalls
        /\ response.SuccessCount = Cardinality(WithStatus("success"))
        /\ response.FailureCount = Cardinality(WithStatus("failed"))

\* C21 (as stated): Execute on a valid request returns no error and a
\* response with one result per requested repository, in request order,
\* whose total is the sum of the successful, failed and skipped setups; a
\* clone failure is a failed result and the repositories after it have
\* their results too.
C21_OneResultEachAndTotals ==
    (upc = "returned" /\ validateRequest(request) = "nil") =>
        /\ execErr = "nil"
        /\ Len(response.SetupResults) = Len(request.Repositories)
        /\ \A i \in DOMAIN response.SetupResults :
              /\ response.SetupResults[i].Name = request.Repositories[i].Name
              /\ response.SetupResults[i].Message = "Failed to clone repository"
                    => response.SetupResults[i].Status = "failed"
        /\ response.TotalCount = Len(request.Repositories)
        /\ response.TotalCount =
              response.SuccessCount + response.FailureCount
                + Cardinality(WithStatus("skipped"))

----------------------------------------------------------------------------
(* The Repository entity (internal/domain/entities/repository.go).  A URL  *)
(* and a repository name are sequences of characters; a directory, a       *)
(* branch, a user name, a token and a key name are sequences of pieces.    *)
(* The ID and the time stamps of the entity are left out.                  *)

\* Calls made on one entity after NewRepository.
MaxCalls == 2

\* "https://h/u/repo.git" and "https://h/%zz"
UrlHttpsRepo ==
    <<"h","t","t","p","s",":","/","/","h","/","u","/","r","e","p","o",".","g","i","t">>
UrlHttpsBadEscape == <<"h","t","t","p","s",":","/","/","h","/","%","z","z">>

EntityUrls == {<<>>, UrlHttps, UrlHttpsRepo, UrlHttpsBadEscape, UrlGit, UrlSsh}

HexDigits ==
    {"0","1","2","3","4","5","6","7","8","9","a","b","c","d","e","f",
     "A","B","C","D","E","F"}

\* url.Parse succeeds: every "%" of the URL begins an escape of two
\* hexadecimal digits.
urlParse(rawURL) ==
    \A i \in DOMAIN rawURL :
        rawURL[i] = "%" =>
            /\ i + 2 <= Len(rawURL)
            /\ rawURL[i + 1] \in HexDigits
            /\ rawURL[i + 2] \in HexDigits

\* validateURL: "nil" or the error.
validateURL(rawURL) ==
    IF rawURL = <<>> THEN "URL cannot be empty"
    ELSE IF HasPrefix(rawURL, GitPrefix) THEN "nil"
    ELSE IF HasPrefix(rawURL, HTTPSPrefix)
    THEN IF urlParse(rawURL) THEN "nil" ELSE "parse"
    ELSE "unsupported URL format"

\* The part of s after its last c, all of s when it has none: the last
\* element of strings.Split(s, c).
RECURSIVE AfterLast(_, _)
AfterLast(s, c) ==
    IF \A i \in DOMAIN s : s[i] # c THEN s
    ELSE AfterLast(Tail(s), c)

\* strings.TrimSuffix(s, ".git")
TrimSuffixGit(s) ==
    IF Len(s) >= 4 /\ SubSeq(s, Len(s) - 3, Len(s)) = <<".","g","i","t">>
    THEN SubSeq(s, 1, Len(s) - 4) ELSE s

\* u.Path of an https URL: what follows the host, from its first "/".
RECURSIVE FromFirstSlash(_)
FromFirstSlash(s) ==
    IF s = <<>> THEN <<>>
    ELSE IF Head(s) = "/" THEN s
    ELSE FromFirstSlash(Tail(s))

UrlPath(rawURL) == FromFirstSlash(SubSeq(rawURL, Len(HTTPSPrefix) + 1, Len(rawURL)))

\* strings.TrimPrefix(s, "/")
TrimPrefixSlash(s) == IF s # <<>> /\ Head(s) = "/" THEN Tail(s) ELSE s

extractRepositoryName(rawURL) ==
    IF HasPrefix(rawURL, GitPrefix)
    THEN IF \E i \in DOMAIN rawURL : rawURL[i] = ":"
         THEN AfterLast(TrimSuffixGit(AfterLast(rawURL, ":")), "/")
         ELSE <<"u","n","k","n","o","w","n">>
    ELSE IF HasPrefix(rawURL, HTTPSPrefix) /\ urlParse(rawURL)
    THEN AfterLast(TrimSuffixGit(TrimPrefixSlash(UrlPath(rawURL))), "/")
    ELSE <<"u","n","k","n","o","w","n">>

NoSSHKey == [Path |-> Empty, Name |-> Empty, Passphrase |-> Empty]

determineAuthMethod(rawURL) ==
    IF HasPrefix(rawURL, GitPrefix)
    THEN [Type |-> "ssh", Username |-> Empty, Token |-> Empty,
          SSHKey |-> [NoSSHKey EXCEPT !.Name = <<"id_rsa">>]]
    ELSE [Type |-> "https", Username |-> Empty, Token |-> Empty, SSHKey |-> NoSSHKey]

\* AuthenticationMethod.Validate: "nil" or the error.
AuthValidate(a) ==
    IF a.Type = "ssh"
    THEN IF a.SSHKey.Path = Empty /\ a.SSHKey.Name = Empty
         THEN "SSH key path or name is required" ELSE "nil"
    ELSE IF a.Type = "https"
    THEN IF a.Username = Empty \/ a.Token = Empty
         THEN "username and token are required for HTTPS" ELSE "nil"
    ELSE "invalid auth type"

\* Repository.Validate: "nil" or the error.
Validate(r) ==
    IF r.URL = <<>> THEN "URL is required"
    ELSE IF r.Directory = Empty THEN "directory is required"
    ELSE IF r.Branch = Empty THEN "branch is required"
    ELSE AuthValidate(r.AuthMethod)

AuthMethods ==
    { [Type |-> "https", Username |-> <<"bob">>, Token |-> <<"tok">>, SSHKey |-> NoSSHKey],
      [Type |-> "https", Username |-> <<"bob">>, Token |-> Empty, SSHKey |-> NoSSHKey],
      [Type |-> "ssh", Username |-> Empty, Token |-> Empty,
       SSHKey |-> [NoSSHKey EXCEPT !.Path = <<"", "keys">>]],
      [Type |-> "ssh", Username |-> Empty, Token |-> Empty, SSHKey |-> NoSSHKey],
      [Type |-> "", Username |-> Empty, Token |-> Empty, SSHKey |-> NoSSHKey] }

Call(op, arg, e) == [op |-> op, arg |-> arg, err |-> e]

EntityInit ==
    /\ GitIdle
    /\ ConfigIdle
    /\ DotEnvIdle
    /\ UseCaseIdle
    /\ env = [HOME |-> HomeDir]
    /\ exitStatus = NoExit
    /\ repository = NilRepository
    /\ calls = <<>>
    /\ ImageIdle
    /\ SharedIdle

\* entities.NewRepository(url, directory)
entitiesNewRepository ==
    /\ calls = <<>>
    /\ \E url \in EntityUrls, directory \in {<<"repo">>, Empty} :
         LET e == IF validateURL(url) # "nil" THEN "invalid repository URL"
                  ELSE IF directory = Empty THEN "directorty cannot be empty"
                  ELSE "nil"
         IN /\ calls' = << Call("NewRepository", [url |-> url, directory |-> directory], e) >>
            /\ repository' =
                 IF e # "nil" THEN NilRepository
                 ELSE [exists |-> TRUE,
                       URL |-> url,
                       Name |-> extractRepositoryName(url),
                       Directory |-> directory,
                       Branch |-> Main,
                       AuthMethod |-> determineAuthMethod(url)]
    /\ UNCHANGED outsideEntity

\* Repository.SetBranch(branch)
SetBranch ==
    /\ repository.exists
    /\ Len(calls) <= MaxCalls
    /\ \E branch \in {Development, DevU, Empty} :
         LET e == IF branch = Empty THEN "branch name cannot be empty"
                  ELSE IF Validate(repository) # "nil"
                  THEN "cannot set branch on invalid repository"
                  ELSE "nil"
         IN /\ calls' = Append(calls, Call("SetBranch", branch, e))
            /\ repository' = IF e = "nil" THEN [repository EXCEPT !.Branch = branch]
                             ELSE repository
    /\ UNCHANGED outsideEntity

\* Repository.SetAuthentication(auth)
SetAuthentication ==
    /\ repository.exists
    /\ Len(calls) <= MaxCalls
    /\ \E a \in AuthMethods :
         LET e == IF AuthValidate(a) # "nil" THEN "invalid authentication method"
                  ELSE "nil"
         IN /\ calls' = Append(calls, Call("SetAuthentication", a, e))
            /\ repository' = IF e = "nil" THEN [repository EXCEPT !.AuthMethod = a]
                             ELSE repository
    /\ UNCHANGED outsideEntity

EntityNext == entitiesNewRepository \/ SetBranch \/ SetAuthentication

EntitySpec == EntityInit /\ [][EntityNext]_vars

\* SetBranch with a non-empty name is the first call on a Repository that
\* NewRepository returned for an https:// URL.
FreshHttpsSetBranch ==
    /\ Len(calls) = 2
    /\ calls[1].err = "nil"
    /\ HasPrefix(calls[1].arg.url, HTTPSPrefix)
    /\ calls[2].op = "SetBranch"
    /\ calls[2].arg # Empty

\* C22 (as stated): on a Repository just returned by NewRepository for an
\* https:// URL and a non-empty directory, SetBranch with a non-empty name
\* returns no error and Branch is that name afterwards.
C22_SetBranchOnFreshHttps ==
    FreshHttpsSetBranch =>
        /\ calls[2].err = "nil"
        /\ repository.Branch = calls[2].arg

----------------------------------------------------------------------------
(* The DockerImage entity (internal/domain/entities/docker/image.go).  An  *)
(* image name, a tag and the key of a build argument are sequences of      *)
(* characters; values, paths and targets are strings.  The ID, the size    *)
(* and the creation time of the image are left out.                        *)

\* Longest build argument key, and the calls made on one image.
MaxKeyLen == 2
MaxImageCalls == 2

\* The double quote character.
DoubleQuote == TextQuote[2]

\* The backquote character, which cannot be written in a string here.
Backquote == "backquote"

\* The characters of validateBuildArgs' cut set.
spcecialChars ==
    {"!","@","#","$","%","^","&","*","(",")","_","-","+","=","[","]","{","}","|",
     ";",":","'",DoubleQuote,",",".","<",">","?","/",Backquote,"~"}

BuildArgKeys == SeqsUpTo({"A", "_", "-"}, MaxKeyLen)

RECURSIVE TrimLeft(_, _)
TrimLeft(s, cutset) ==
    IF s # <<>> /\ Head(s) \in cutset THEN TrimLeft(Tail(s), cutset) ELSE s

RECURSIVE TrimRight(_, _)
TrimRight(s, cutset) ==
    IF s # <<>> /\ s[Len(s)] \in cutset
    THEN TrimRight(SubSeq(s, 1, Len(s) - 1), cutset) ELSE s

\* strings.Trim
Trim(s, cutset) == TrimRight(TrimLeft(s, cutset), cutset)

\* validateBuildArgs on the one-entry map {key: value}: "nil" or the error.
validateBuildArgs(key) ==
    IF key = <<>> THEN "ErrArgumentKeyNotBeEmpty"
    ELSE IF key = Trim(key, spcecialChars) THEN "ErrArgumentKeyNotBeSpecialChars"
    ELSE "nil"

\* strings.Contains(name, " ")
ContainsSpace(name) == \E i \in DOMAIN name : name[i] = " "

validateDockerImageData(name, tag) ==
    IF name = <<>> THEN "ErrInvalidDockerImageName"
    ELSE IF tag = <<>> THEN "ErrInvalidDockerImageTag"
    ELSE IF ContainsSpace(name) THEN "ErrInvalidDockerImageName"
    ELSE "nil"

buildFullImageName(name, tag) == name \o <<":">> \o tag

ImageCall(op, arg, e) ==
    << [op |-> op, arg |-> arg, err |-> e, before |-> image] >>

ImageInit ==
    /\ GitIdle
    /\ ConfigIdle
    /\ DotEnvIdle
    /\ UseCaseIdle
    /\ EntityIdle
    /\ env = [HOME |-> HomeDir]
    /\ exitStatus = NoExit
    /\ image = NilImage
    /\ imageCall = <<>>
    /\ imageCalls = 0
    /\ SharedIdle

\* NewDockerImage(name, tag)
NewDockerImage ==
    /\ ~image.exists
    /\ imageCall = <<>>
    /\ \E name \in {<<"a","p","p">>, <<>>, <<"a"," ","b">>}, tag \in {<<"v","1">>, <<>>} :
         LET e == validateDockerImageData(name, tag)
         IN /\ imageCall' = ImageCall("NewDockerImage", [name |-> name, tag |-> tag], e)
            /\ image' =
                 IF e # "nil" THEN NilImage
                 ELSE [exists |-> TRUE, Name |-> name, Tag |-> tag,
                       FullName |-> buildFullImageName(name, tag),
                       BuildArgs |-> <<>>, Target |-> "", Context |-> "",
                       Dockerfile |-> ""]
    /\ UNCHANGED <<outsideImage, imageCalls>>

\* A further call can be made on the image.
ImageCallable ==
    /\ image.exists
    /\ imageCalls < MaxImageCalls

\* DockerImage.AddBuildArg(key, value)
AddBuildArg ==
    /\ ImageCallable
    /\ \E key \in BuildArgKeys, value \in {"v", "w"} :
         LET e == validateBuildArgs(key)
         IN /\ imageCall' = ImageCall("AddBuildArg", [key |-> key, value |-> value], e)
            /\ image' =
                 IF e # "nil" THEN image
                 ELSE [image EXCEPT !.BuildArgs =
                         [k \in DOMAIN image.BuildArgs \cup {key} |->
                            IF k = key THEN value ELSE image.BuildArgs[k]]]
    /\ imageCalls' = imageCalls + 1
    /\ UNCHANGED outsideImage

\* DockerImage.SetDockerFile(path)
SetDockerFile ==
    /\ ImageCallable
    /\ \E path \in {"", "Dockerfile", "Dockerfile.dev"} :
         LET e == IF path = "" THEN "ErrDockerFilePathEmpty" ELSE "nil"
         IN /\ imageCall' = ImageCall("SetDockerFile", path, e)
            /\ image' = IF e # "nil" THEN image ELSE [image EXCEPT !.Dockerfile = path]
    /\ imageCalls' = imageCalls + 1
    /\ UNCHANGED outsideImage

\* DockerImage.SetContext(context): the argument is checked and nothing is
\* assigned.
SetContext ==
    /\ ImageCallable
    /\ \E context \in {"", ".", "./build"} :
         LET e == IF context = "" THEN "ErrContextEmpty" ELSE "nil"
         IN imageCall' = ImageCall("SetContext", context, e)
    /\ imageCalls' = imageCalls + 1
    /\ UNCHANGED <<outsideImage, image>>

\* DockerImage.SetTarget(target)
SetTarget ==
    /\ ImageCallable
    /\ \E target \in {"", "release"} :
         /\ imageCall' = ImageCall("SetTarget", target, "nil")
         /\ image' = [image EXCEPT !.Target = target]
    /\ imageCalls' = imageCalls + 1
    /\ UNCHANGED outsideImage

\* DockerImage.Validate()
ImageValidate ==
    /\ ImageCallable
    /\ LET d == validateDockerImageData(image.Name, image.Tag)
           e == IF d # "nil" THEN d
                ELSE IF image.Dockerfile # "" /\ ~HasSuffix(image.Dockerfile, "Dockerfile")
                THEN "ErrDockerFileNotFound"
                ELSE "nil"
       IN imageCall' = ImageCall("Validate", "", e)
    /\ imageCalls' = imageCalls + 1
    /\ UNCHANGED <<outsideImage, image>>

ImageNext ==
    \/ NewDockerImage
    \/ AddBuildArg
    \/ SetDockerFile
    \/ SetContext
    \/ SetTarget
    \/ ImageValidate

ImageSpec == ImageInit /\ [][ImageNext]_vars

\* The last call on the image was op.
LastImageCall(op) == imageCall # <<>> /\ imageCall[1].op = op

\* The key is empty or consists solely of special characters.
OnlySpecialChars(key) == \A i \in DOMAIN key : key[i] \in spcecialChars

\* C23 (as stated): AddBuildArg returns an error exactly when the key is
\* empty or consists solely of special characters; otherwise it returns
\* nil and BuildArgs[key] is the value; on an error BuildArgs is unchanged.
C23_AddBuildArgRejectsSpecialKeys ==
    LastImageCall("AddBuildArg") =>
        LET c == imageCall[1]
        IN /\ (c.err # "nil") <=> OnlySpecialChars(c.arg.key)
           /\ c.err = "nil" =>
                 /\ c.arg.key \in DOMAIN image.BuildArgs
                 /\ image.BuildArgs[c.arg.key] = c.arg.value
           /\ c.err # "nil" => image.BuildArgs = c.before.BuildArgs

\* C24 (as stated): SetContext(c) with a non-empty c returns nil and the
\* Context of the image is c afterwards; with an empty c it returns
\* ErrContextEmpty and leaves the image unchanged.
C24_SetContextSetsContext ==
    LastImageCall("SetContext") =>
        LET c == imageCall[1]
        IN IF c.arg # ""
           THEN c.err = "nil" /\ image.Context = c.arg
           ELSE c.err = "ErrContextEmpty" /\ image = c.before

----------------------------------------------------------------------------
(* The fallback branch and a failed checkout of development *)

\* Entry i has been cloned by this call of clone.
ClonedByCall(i) ==
    \/ outcome[i] \in {"ok", "BranchCreate"}
    \/ (i = idx /\ pc \in {"checkout", "create"})

\* C25 (as stated): the fallback branch development/<USER> is created only
\* in a clone that has no development branch: when the checkout of an
\* existing development branch fails, clone does not go on to the creation
\* of the fallback branch and no fallback branch exists afterwards.
C25_FallbackOnlyWithoutDevelopment ==
    \A i \in Entries :
        (ClonedByCall(i) /\ Development \in LocalNames(TreeOf(i))) =>
            /\ ~(i = idx /\ pc = "create")
            /\ NewBranch \notin LocalNames(TreeOf(i))

----------------------------------------------------------------------------
(* fetchRepositories on options its caller filled in.  The caller of the   *)
(* clone engine hands over one GitCloneOptions value per repository; two   *)
(* repositories of one list may name different key files.                  *)

\* The SSHKeyPath and SSHKeyName values a caller puts into the options:
\* none, a directory, a file; "id_rsa", "id_ed".
OptionKeyPaths == {Empty, <<"", "keys">>, <<"", "keys", "k">>}
OptionKeyNames == {<<"id_rsa">>, <<"id_ed">>}

\* Two options that differ in the directory and, possibly, in SSHKeyName.
OptionPairs ==
    { [i \in 1..2 |->
         [URL |-> url, Directory |-> IF i = 1 THEN DirA ELSE DirB,
          Username |-> GetEnvOrDefault("GIT_USER", Empty),
          Password |-> GetEnvOrDefault("GIT_TOKEN", Empty),
          SSHKeyPath |-> keyPath, SSHKeyName |-> names[i]]] :
      url \in Urls, keyPath \in OptionKeyPaths, names \in [1..2 -> OptionKeyNames] }

FetchInit ==
    /\ pc = "fetch"
    /\ config = Unreadable
    /\ env \in Envs
    /\ repos \in OptionPairs
    /\ idx = 1
    /\ fs \in [Dirs -> {Absent, PreExisting}]
    /\ auth = NoAuth
    /\ err = NilError
    /\ exitStatus = NoExit
    /\ outcome = [i \in 1..2 |-> "unprocessed"]
    /\ built = [i \in 1..2 |-> {}]
    /\ keyRead = [i \in 1..2 |-> {}]
    /\ tried = [i \in 1..2 |-> {}]
    /\ fsAtCall = fs
    /\ ConfigIdle
    /\ DotEnvIdle
    /\ UseCaseIdle
    /\ EntityIdle
    /\ ImageIdle
    /\ SharedIdle

FetchNext ==
    \/ FetchLoop
    \/ CloneStat
    \/ CloneAuth
    \/ ClonePlain
    \/ CloneCheckout
    \/ CloneCreate

FetchSpec == FetchInit /\ [][FetchNext]_vars

\* The key file the options of a repository name: <SSHKeyPath>/<SSHKeyName>
\* for a directory, SSHKeyPath itself for a file, <home>/.ssh/<SSHKeyName>
\* when SSHKeyPath is empty.
OptionKeyFile(opts) ==
    IF opts.SSHKeyPath = Empty THEN env.HOME \o <<".ssh">> \o opts.SSHKeyName
    ELSE IF IsDir(opts.SSHKeyPath) THEN opts.SSHKeyPath \o opts.SSHKeyName
    ELSE opts.SSHKeyPath

\* C27 (as stated): the key file read for a repository is the one its own
\* SSHKeyPath and SSHKeyName options name, and two repositories whose
\* options differ only in SSHKeyName, with SSHKeyPath empty or a directory,
\* read different key files.
C27_KeyFileByOptions ==
    /\ \A i \in Entries :
         \A path \in keyRead[i] : Lookup(path) = Lookup(OptionKeyFile(repos[i]))
    /\ \A i, j \in Entries :
         ( /\ repos[i].SSHKeyPath = repos[j].SSHKeyPath
           /\ repos[i].SSHKeyPath = Empty \/ IsDir(repos[i].SSHKeyPath)
           /\ repos[i].SSHKeyName # repos[j].SSHKeyName ) =>
             keyRead[i] \cap keyRead[j] = {}

----------------------------------------------------------------------------
(* Concurrent calls of Execute on one repository store.  Every caller runs *)
(* setupSingleRepository for the one repository of its request; a step is  *)
(* one call of a port: FindByName and Save hold the mutex of the store for  *)
(* the length of the call, gitPort.Clone runs between them.                 *)

\* The goroutines that call Execute.
MaxCallers == 2

Callers == 1..MaxCallers

SharedNames == {<<"a">>, <<"b">>}

\* A caller before its first step.
NewCaller(name, force) ==
    [Name |-> name, ForceClone |-> force, pos |-> "find", cloned |-> FALSE,
     Status |-> "none"]

SharedInit ==
    /\ GitIdle
    /\ ConfigIdle
    /\ DotEnvIdle
    /\ UseCaseIdle
    /\ EntityIdle
    /\ ImageIdle
    /\ env = [HOME |-> HomeDir]
    /\ exitStatus = NoExit
    /\ callers \in [Callers -> { NewCaller(n, f) : n \in SharedNames, f \in BOOLEAN }]
    /\ \E saved \in SUBSET SharedNames :
          sharedStore = [n \in saved |-> Join(<<WorkDir, n>>)]
    /\ cloneCount = [n \in SharedNames |-> 0]

\* The caller returns from setupSingleRepository with a status.
CallerReturns(c, status) ==
    callers' = [callers EXCEPT ![c].pos = "returned", ![c].Status = status]

\* setupSingleRepository up to the skip: repositoryRepo.FindByName under
\* the read lock of the store, and the decision taken on its answer.
CallerFindByName(c) ==
    /\ callers[c].pos = "find"
    /\ \E find \in BOOLEAN :
         IF ~find
         THEN CallerReturns(c, "failed")
         ELSE IF callers[c].Name \in DOMAIN sharedStore /\ ~callers[c].ForceClone
         THEN CallerReturns(c, "skipped")
         ELSE callers' = [callers EXCEPT ![c].pos = "clone"]
    /\ UNCHANGED <<outsideShared, sharedStore, cloneCount>>

\* setupSingleRepository: gitPort.Clone.
CallerClone(c) ==
    /\ callers[c].pos = "clone"
    /\ cloneCount' = [cloneCount EXCEPT ![callers[c].Name] = @ + 1]
    /\ \E clone \in BOOLEAN :
         IF ~clone
         THEN CallerReturns(c, "failed")
         ELSE callers' = [callers EXCEPT ![c].pos = "save", ![c].cloned = TRUE]
    /\ UNCHANGED <<outsideShared, sharedStore>>

\* setupSingleRepository: repositoryRepo.Save under the lock of the store,
\* and the result.
CallerSave(c) ==
    /\ callers[c].pos = "save"
    /\ \E save \in BOOLEAN :
         IF ~save
         THEN /\ CallerReturns(c, "failed")
              /\ UNCHANGED sharedStore
         ELSE /\ CallerReturns(c, "success")
              /\ sharedStore' =
                   [n \in DOMAIN sharedStore \cup {callers[c].Name} |->
                      IF n = callers[c].Name THEN Join(<<WorkDir, n>>)
                      ELSE sharedStore[n]]
    /\ UNCHANGED <<outsideShared, cloneCount>>

SharedNext ==
    \E c \in Callers :
        \/ CallerFindByName(c)
        \/ CallerClone(c)
        \/ CallerSave(c)

SharedSpec == SharedInit /\ [][SharedNext]_vars

\* The callers that set up the repository of this name.
CallersOf(name) == { c \in Callers : callers[c].Name = name }

\* The caller has cloned its repository and has not failed to save it.
ClonedForStore(c) == callers[c].cloned /\ callers[c].Status # "failed"

\* C26 (as stated): for a repository name that every caller sets up with
\* force off, at most one caller clones the repository for the store, and
\* once a caller has reported success every other caller that has
\* returned reports skipped (or a failure of its own).
C26_CloneOncePerName ==
    \A name \in SharedNames :
        (\A c \in CallersOf(name) : ~callers[c].ForceClone) =>
            /\ Cardinality({ c \in CallersOf(name) : ClonedForStore(c) }) <= 1
            /\ \A c, d \in CallersOf(name) :
                 ( /\ c # d
                   /\ callers[c].Status = "success"
                   /\ callers[d].pos = "returned" ) =>
                     callers[d].Status \in {"skipped", "failed"}

====
